---------------------------- MODULE Spec2Model ----------------------------
(***************************************************************************)
(* The configuration resolver of senko (src/utils/config.py) and the       *)
(* callers of it in src/core/client.py: the process-wide cache             *)
(* _config_cache, load_config, get_config_value, clear_config_cache,       *)
(* reload_config and get_default_config, over a changing os.environ; and   *)
(* the prompt loader (src/core/prompt_loader.py): load_prompt,             *)
(* format_prompt and load_and_format_prompt over the files of the working  *)
(* directory.                                                              *)
(*                                                                         *)
(* Python values are tagged records: [t |-> "NoneType"], [t |-> "str", v], *)
(* [t |-> "float", v], [t |-> "dict", v] with v a function from keys to    *)
(* values.  A float is the decimal m * 10^e, normalised.  The text of      *)
(* OPENROUTER_TEMPERATURE is a sequence of characters, since float() reads *)
(* it character by character; the other strings are TLA+ strings.  A       *)
(* key path is a sequence of tokens, each a "." or a dot-free piece of     *)
(* text, since split('.') only looks at the dots.                          *)
(***************************************************************************)
EXTENDS Integers, Sequences, FiniteSets, TLC

VARIABLES
  environ,        \* os.environ, restricted to the three OPENROUTER_ variables
  _config_cache,  \* the module global of config.py: None or the cached tree
  call,           \* the last call made on the single-caller timeline
  ret,            \* what that call returned
  exc,            \* the exception that call raised ("none": it returned)
  stdout,         \* the lines that call printed
  reads,          \* the variables that call read with os.getenv
  prev_cache,     \* _config_cache as it was when that call started
  calls,          \* unforced resolve requests since the cache was last emptied or force-reloaded
  loads,          \* how many of those read the environment
  cleared_model,  \* openrouter.model of the tree the last clear_config_cache that
                  \* found the cache populated discarded (None: none did yet)
  pc,             \* concurrent callers: each caller's position in load_config
  frame,          \* concurrent callers: each caller's local variable config
  result,         \* concurrent callers: what each caller's last load_config returned
  fs,             \* the files below the working directory that prompt_loader.py can see
  message,        \* the message of the exception the last prompt_loader call raised
  aliased,        \* a caller holds the very tree that _config_cache refers to
  earlier         \* an earlier resolution: the environment it read and its tree

vars == <<environ, _config_cache, call, ret, exc, stdout, reads, prev_cache,
          calls, loads, cleared_model, pc, frame, result, fs, message,
          aliased, earlier>>

seqVars == <<call, ret, exc, stdout, reads, prev_cache, calls, loads, cleared_model>>
concVars == <<pc, frame, result>>
treeVars == <<aliased, earlier>>
restVars == <<fs, message, treeVars>>

---------------------------------------------------------------------------
(* Bounds *)

MaxCalls == 3
NumCallers == 2

Callers == 1..NumCallers

---------------------------------------------------------------------------
(* Python values *)

PyNone == [t |-> "NoneType"]
PyStr(s) == [t |-> "str", v |-> s]
PyFloat(d) == [t |-> "float", v |-> d]
PyDict(f) == [t |-> "dict", v |-> f]

NoExc == "none"

\* bool(x) for None and str, as the walrus tests of load_config use it
Truthy(x) == x.t = "str" /\ Len(x.v) > 0

\* d[k] = val on a dict
SetItem(d, k, val) ==
  PyDict([kk \in DOMAIN d.v \cup {k} |-> IF kk = k THEN val ELSE d.v[kk]])

\* config["openrouter"][k] = val
SetOpenrouter(config, k, val) ==
  SetItem(config, "openrouter", SetItem(config.v["openrouter"], k, val))

RECURSIVE Normalise(_, _)
Normalise(m, e) ==
  IF m = 0 THEN [m |-> 0, e |-> 0]
  ELSE IF m % 10 = 0 THEN Normalise(m \div 10, e + 1)
  ELSE [m |-> m, e |-> e]

---------------------------------------------------------------------------
(* float(text) *)

Whitespace == {" ", "\t", "\n"}
DigitChars == <<"0", "1", "2", "3", "4", "5", "6", "7", "8", "9">>
IsDigit(c) == \E i \in 1..Len(DigitChars) : DigitChars[i] = c
DigitVal(c) == (CHOOSE i \in 1..Len(DigitChars) : DigitChars[i] = c) - 1

RECURSIVE LStrip(_)
LStrip(s) == IF s # <<>> /\ Head(s) \in Whitespace THEN LStrip(Tail(s)) ELSE s

RECURSIVE RStrip(_)
RStrip(s) ==
  IF s # <<>> /\ s[Len(s)] \in Whitespace THEN RStrip(SubSeq(s, 1, Len(s) - 1)) ELSE s

Strip(s) == RStrip(LStrip(s))

IsDigits(s) == \A i \in 1..Len(s) : IsDigit(s[i])

RECURSIVE DigitsValue(_)
DigitsValue(s) ==
  IF s = <<>> THEN 0
  ELSE DigitsValue(SubSeq(s, 1, Len(s) - 1)) * 10 + DigitVal(s[Len(s)])

\* the first position of s holding a character of cs, 0 if there is none
IndexOf(s, cs) ==
  IF \E i \in 1..Len(s) : s[i] \in cs
  THEN CHOOSE i \in 1..Len(s) : s[i] \in cs /\ \A j \in 1..(i - 1) : s[j] \notin cs
  ELSE 0

HasSign(s) == s # <<>> /\ Head(s) \in {"+", "-"}
Unsigned(s) == IF HasSign(s) THEN Tail(s) ELSE s
SignOf(s) == IF s # <<>> /\ Head(s) = "-" THEN -1 ELSE 1

\* float(text) on a decimal literal: surrounding whitespace, a sign, digits
\* with an optional point, an optional exponent.  Anything else is a
\* ValueError (the texts used here hold no underscore, "inf" or "nan").
\* ip and fp are the digits before and after the point, expo the text after
\* the exponent mark.
FloatOfParts(sign, ip, fp, expo, marked) ==
  IF /\ IsDigits(ip) /\ IsDigits(fp) /\ Len(ip) + Len(fp) > 0
     /\ (~marked \/ (Unsigned(expo) # <<>> /\ IsDigits(Unsigned(expo))))
  THEN [exc |-> NoExc,
        val |-> PyFloat(Normalise(sign * DigitsValue(ip \o fp),
                                  SignOf(expo) * DigitsValue(Unsigned(expo)) - Len(fp)))]
  ELSE [exc |-> "ValueError", val |-> PyNone]

FloatOfMantissa(sign, mant, dpos, expo, marked) ==
  FloatOfParts(sign,
               IF dpos = 0 THEN mant ELSE SubSeq(mant, 1, dpos - 1),
               IF dpos = 0 THEN <<>> ELSE SubSeq(mant, dpos + 1, Len(mant)),
               expo, marked)

FloatOfSplit(sign, mant, expo, marked) ==
  FloatOfMantissa(sign, mant, IndexOf(mant, {"."}), expo, marked)

FloatOfBody(sign, body, epos) ==
  FloatOfSplit(sign,
               IF epos = 0 THEN body ELSE SubSeq(body, 1, epos - 1),
               IF epos = 0 THEN <<>> ELSE SubSeq(body, epos + 1, Len(body)),
               epos # 0)

FloatOfStripped(s) == FloatOfBody(SignOf(s), Unsigned(s), IndexOf(Unsigned(s), {"e", "E"}))

float(text) == FloatOfStripped(Strip(text))

---------------------------------------------------------------------------
(* key_path.split('.') *)

RECURSIVE SplitFrom(_, _, _)
SplitFrom(tokens, piece, done) ==
  IF tokens = <<>> THEN Append(done, piece)
  ELSE IF Head(tokens) = "." THEN SplitFrom(Tail(tokens), "", Append(done, piece))
  ELSE SplitFrom(Tail(tokens), piece \o Head(tokens), done)

split(key_path) == SplitFrom(key_path, "", <<>>)

---------------------------------------------------------------------------
(* The environment *)

EnvNames == {"OPENROUTER_API_KEY", "OPENROUTER_MODEL", "OPENROUTER_TEMPERATURE"}

\* The values a variable may be given; PyNone is the variable unset.  A
\* variable set to the empty string is present and empty.
EnvValues(name) ==
  CASE name = "OPENROUTER_API_KEY" ->
         {PyNone, PyStr(""), PyStr("sk-or-v1-abc")}
    [] name = "OPENROUTER_MODEL" ->
         {PyNone, PyStr(""), PyStr("foo")}
    [] name = "OPENROUTER_TEMPERATURE" ->
         {PyNone, PyStr(<<>>),
          PyStr(<<"0", ".", "7">>),
          PyStr(<<"7", "e", "-", "1">>),
          PyStr(<<"0", ".", "3", "0">>),
          PyStr(<<"n", "o", "t", "-", "a", "-", "n", "u", "m", "b", "e", "r">>),
          PyStr(<<"0", ".", "7", ".", "1">>)}

Environments ==
  {[OPENROUTER_API_KEY |-> k, OPENROUTER_MODEL |-> m, OPENROUTER_TEMPERATURE |-> t] :
     k \in EnvValues("OPENROUTER_API_KEY"),
     m \in EnvValues("OPENROUTER_MODEL"),
     t \in EnvValues("OPENROUTER_TEMPERATURE")}

getenv(env, name) == env[name]

---------------------------------------------------------------------------
(* src/utils/config.py *)

\* Mutant of get_default_config: one module-level dict, which load_config
\* fills in place and caches, is handed out
get_default_config_shared ==
  IF _config_cache # PyNone THEN _config_cache
  ELSE PyDict([openrouter |->
                 PyDict([default_model |-> PyStr("google/gemini-flash-1.5"),
                         temperature |-> PyFloat([m |-> 3, e |-> -1]),
                         base_url |-> PyStr("https://openrouter.ai/api/v1")]),
               prompts |-> PyDict([directory |-> PyStr("prompts")]),
               analysis |->
                 PyDict([system_message |->
                           PyStr("You are an expert in sentiment analysis. Always respond with valid JSON only.")])])

get_default_config ==
  PyDict([openrouter |->
            PyDict([default_model |-> PyStr("google/gemini-flash-1.5"),
                    temperature |-> PyFloat([m |-> 3, e |-> -1]),
                    base_url |-> PyStr("https://openrouter.ai/api/v1")]),
          prompts |-> PyDict([directory |-> PyStr("prompts")]),
          analysis |->
            PyDict([system_message |->
                      PyStr("You are an expert in sentiment analysis. Always respond with valid JSON only.")])])

\* d[k]: the value, or a KeyError
GetItem(d, k) ==
  IF k \in DOMAIN d.v THEN [exc |-> NoExc, val |-> d.v[k]]
  ELSE [exc |-> "KeyError", val |-> PyNone]

\* Mutant of SetApiKey: "is not None" in place of the truth test of line 58
SetApiKeyIfSet(config, api_key) ==
  IF api_key # PyNone THEN SetOpenrouter(config, "api_key", api_key) ELSE config

\* load_config, lines 58-59
SetApiKey(config, api_key) ==
  IF Truthy(api_key) THEN SetOpenrouter(config, "api_key", api_key) ELSE config

ApplyApiKey(config, env) == SetApiKey(config, getenv(env, "OPENROUTER_API_KEY"))

\* Mutant of SetModel: "is not None" in place of the truth test of line 61
SetModelIfSet(config, model) ==
  IF model # PyNone
  THEN [config |-> SetOpenrouter(config, "model", model),
        stdout |-> <<[msg |-> "Using custom model from env", arg |-> model.v]>>]
  ELSE [config |-> SetOpenrouter(config, "model",
                                 config.v["openrouter"].v["default_model"]),
        stdout |-> <<>>]

\* load_config, lines 61-65: the tree, and the lines printed
SetModel(config, model) ==
  IF Truthy(model)
  THEN [config |-> SetOpenrouter(config, "model", model),
        stdout |-> <<[msg |-> "Using custom model from env", arg |-> model.v]>>]
  ELSE [config |-> SetOpenrouter(config, "model",
                                 config.v["openrouter"].v["default_model"]),
        stdout |-> <<>>]

ApplyModel(config, env) == SetModel(config, getenv(env, "OPENROUTER_MODEL"))

\* Mutant of TryFloat: no except clause, the ValueError leaves load_config
TryFloatUncaught(config, temperature, parsed) ==
  IF parsed.exc = "ValueError"
  THEN [exc |-> parsed.exc, config |-> config, stdout |-> <<>>]
  ELSE [exc |-> parsed.exc,
        config |-> SetOpenrouter(config, "temperature", parsed.val),
        stdout |-> <<[msg |-> "Using custom temperature from env",
                      arg |-> temperature.v]>>]

\* load_config, lines 68-72: the try block around float(temperature)
TryFloat(config, temperature, parsed) ==
  IF parsed.exc = "ValueError"
  THEN [exc |-> NoExc, config |-> config,
        stdout |-> <<[msg |-> "Invalid temperature value in env, using default",
                      arg |-> temperature.v]>>]
  ELSE [exc |-> parsed.exc,
        config |-> SetOpenrouter(config, "temperature", parsed.val),
        stdout |-> <<[msg |-> "Using custom temperature from env",
                      arg |-> temperature.v]>>]

\* load_config, lines 67-72: the tree, the lines printed, the exception that
\* leaves the block
SetTemperature(config, temperature) ==
  IF Truthy(temperature)
  THEN TryFloat(config, temperature, float(temperature.v))
  ELSE [exc |-> NoExc, config |-> config, stdout |-> <<>>]

ApplyTemperature(config, env) ==
  SetTemperature(config, getenv(env, "OPENROUTER_TEMPERATURE"))

\* What a call does: the exception it raises or the value it returns, the
\* cache it leaves, the lines it prints, the variables it reads.
Outcome(e, r, c, out, rd) ==
  [exc |-> e, ret |-> r, cache |-> c, stdout |-> out, reads |-> rd]

\* load_config, lines 74-76: store the tree and return it, unless an
\* exception left the function before
StoreAndReturn(cache, modelled, tempered) ==
  IF tempered.exc # NoExc
  THEN Outcome(tempered.exc, PyNone, cache, modelled.stdout \o tempered.stdout, EnvNames)
  ELSE Outcome(NoExc, tempered.config, tempered.config,
               modelled.stdout \o tempered.stdout, EnvNames)

ResolveTemperature(cache, modelled, env) ==
  StoreAndReturn(cache, modelled, ApplyTemperature(modelled.config, env))

\* Mutant of Resolve: the overrides are applied to the cached tree where
\* there is one, and not to fresh defaults
ResolveInPlace(cache, env) ==
  ResolveTemperature(cache,
                     ApplyModel(ApplyApiKey(IF cache # PyNone THEN cache
                                            ELSE get_default_config, env), env),
                     env)

\* load_config, lines 55-76: the resolution
Resolve(cache, env) ==
  ResolveTemperature(cache, ApplyModel(ApplyApiKey(get_default_config, env), env), env)

\* Mutant of load_config: the test of line 52 is gone, every call resolves
load_config_uncached(cache, env, force_reload) == Resolve(cache, env)

load_config(cache, env, force_reload) ==
  IF cache # PyNone /\ ~force_reload
  THEN Outcome(NoExc, cache, cache, <<>>, {})
  ELSE Resolve(cache, env)

\* Mutant of Walk: no isinstance test, a node that is no dict is indexed
RECURSIVE WalkUnchecked(_, _, _)
WalkUnchecked(current, keys, default) ==
  IF keys = <<>> THEN [exc |-> NoExc, val |-> current]
  ELSE IF current.t # "dict" THEN [exc |-> "TypeError", val |-> PyNone]
  ELSE IF Head(keys) \in DOMAIN current.v
       THEN WalkUnchecked(current.v[Head(keys)], Tail(keys), default)
       ELSE [exc |-> NoExc, val |-> default]

\* get_config_value, lines 98-105
RECURSIVE Walk(_, _, _)
Walk(current, keys, default) ==
  IF keys = <<>> THEN [exc |-> NoExc, val |-> current]
  ELSE IF current.t = "dict" /\ Head(keys) \in DOMAIN current.v
       THEN Walk(current.v[Head(keys)], Tail(keys), default)
       ELSE [exc |-> NoExc, val |-> default]

ReturnFound(loaded, found) ==
  IF found.exc # NoExc THEN [loaded EXCEPT !.exc = found.exc, !.ret = PyNone]
  ELSE [loaded EXCEPT !.ret = found.val]

WalkLoaded(loaded, key_path, default) ==
  IF loaded.exc # NoExc THEN loaded
  ELSE ReturnFound(loaded, Walk(loaded.ret, split(key_path), default))

\* Mutant of get_config_value: the tree is resolved anew for every lookup
get_config_value_reloading(cache, env, key_path, default) ==
  WalkLoaded(load_config(cache, env, TRUE), key_path, default)

get_config_value(cache, env, key_path, default) ==
  WalkLoaded(load_config(cache, env, FALSE), key_path, default)

\* Mutant of clear_config_cache: no global statement, the None goes to a local
clear_config_cache_local(cache) == Outcome(NoExc, PyNone, cache, <<>>, {})

\* Mutant of clear_config_cache: the cache is reset to an empty dict
clear_config_cache_dict(cache) == Outcome(NoExc, PyNone, PyDict(<<>>), <<>>, {})

clear_config_cache(cache) == Outcome(NoExc, PyNone, PyNone, <<>>, {})

\* Mutant of reload_config: force_reload is not passed
reload_config_unforced(cache, env) == load_config(cache, env, FALSE)

reload_config(cache, env) == load_config(cache, env, TRUE)

---------------------------------------------------------------------------
(* src/core/client.py *)

Raise(loaded, e) == [loaded EXCEPT !.exc = e, !.ret = PyNone]

\* get_model_name, lines 52-56
ReturnModel(loaded, model, default_model) ==
  IF model.exc # NoExc THEN Raise(loaded, model.exc)
  ELSE IF default_model.exc # NoExc THEN Raise(loaded, default_model.exc)
  ELSE IF ~Truthy(model.val)
       THEN [loaded EXCEPT !.ret = default_model.val,
                           !.stdout = loaded.stdout \o
                             <<[msg |-> "Model not set in .env, using default",
                                arg |-> default_model.val.v]>>]
       ELSE [loaded EXCEPT !.ret = model.val]

\* get_model_name, lines 49-50
ModelOf(loaded, openrouter) ==
  IF openrouter.exc # NoExc THEN Raise(loaded, openrouter.exc)
  ELSE ReturnModel(loaded, GetItem(openrouter.val, "model"),
                   GetItem(openrouter.val, "default_model"))

ModelOfLoaded(loaded) ==
  IF loaded.exc # NoExc THEN loaded
  ELSE ModelOf(loaded, GetItem(loaded.ret, "openrouter"))

get_model_name(cache, env) == ModelOfLoaded(load_config(cache, env, FALSE))

---------------------------------------------------------------------------
(* The single-caller timeline: every call runs to its end before the next *)

\* The key paths asked for, as tokens: "openrouter.model", "openrouter.missing",
\* "openrouter.api_key", "openrouter.temperature", "openrouter.base_url",
\* "analysis.system_message", "openrouter", "openrouter.model.x",
\* "openrouter.api_key.x", "a.b.c", "", "openrouter." and "prompts..directory".
KeyPaths ==
  {<<"openrouter", ".", "model">>,
   <<"openrouter", ".", "missing">>,
   <<"openrouter", ".", "api_key">>,
   <<"openrouter", ".", "temperature">>,
   <<"openrouter", ".", "base_url">>,
   <<"analysis", ".", "system_message">>,
   <<"openrouter">>,
   <<"openrouter", ".", "model", ".", "x">>,
   <<"openrouter", ".", "api_key", ".", "x">>,
   <<"a", ".", "b", ".", "c">>,
   <<>>,
   <<"openrouter", ".">>,
   <<"prompts", ".", ".", "directory">>}

Defaults == {PyNone, PyStr("X")}

NotReturned == [t |-> "NotReturned"]

Init ==
  /\ environ \in Environments
  /\ _config_cache = PyNone
  /\ call = [op |-> "import"]
  /\ ret = PyNone
  /\ exc = NoExc
  /\ stdout = <<>>
  /\ reads = {}
  /\ prev_cache = PyNone
  /\ calls = 0
  /\ loads = 0
  /\ cleared_model = PyNone
  /\ pc = [t \in Callers |-> "idle"]
  /\ frame = [t \in Callers |-> [force_reload |-> FALSE, config |-> PyNone]]
  /\ result = [t \in Callers |-> NotReturned]
  /\ fs = <<>>
  /\ message = <<>>
  /\ aliased = FALSE
  /\ earlier = PyNone

\* tree["openrouter"]["model"], None where there is none
ModelOfTree(tree) ==
  IF "openrouter" \in DOMAIN tree.v /\ "model" \in DOMAIN tree.v["openrouter"].v
  THEN tree.v["openrouter"].v["model"]
  ELSE PyNone

\* The call c ends with outcome o.
Finish(c, o) ==
  /\ call' = c
  /\ prev_cache' = _config_cache
  /\ _config_cache' = o.cache
  /\ ret' = o.ret
  /\ exc' = o.exc
  /\ stdout' = o.stdout
  /\ reads' = o.reads
  /\ cleared_model' = IF c.op = "clear_config_cache" /\ _config_cache # PyNone
                      THEN ModelOfTree(_config_cache)
                      ELSE cleared_model
  /\ UNCHANGED <<environ, concVars, restVars>>

\* An unforced resolve request is counted in the current cache epoch.
CountRequest(o) ==
  /\ calls < MaxCalls
  /\ calls' = calls + 1
  /\ loads' = loads + (IF o.reads # {} THEN 1 ELSE 0)

\* An unforced resolve request c ends with outcome o.
Request(c, o) == CountRequest(o) /\ Finish(c, o)

LoadConfig ==
  Request([op |-> "load_config", force_reload |-> FALSE],
          load_config(_config_cache, environ, FALSE))

LoadConfigForced ==
  /\ calls' = 1
  /\ loads' = 1
  /\ Finish([op |-> "load_config", force_reload |-> TRUE],
            load_config(_config_cache, environ, TRUE))

GetConfigValue ==
  \E key_path \in KeyPaths, default \in Defaults :
    Request([op |-> "get_config_value", key_path |-> key_path, default |-> default],
            get_config_value(_config_cache, environ, key_path, default))

ClearConfigCache ==
  /\ calls' = 0
  /\ loads' = 0
  /\ Finish([op |-> "clear_config_cache"], clear_config_cache(_config_cache))

ReloadConfig ==
  /\ calls' = 1
  /\ loads' = 1
  /\ Finish([op |-> "reload_config"], reload_config(_config_cache, environ))

GetDefaultConfig ==
  /\ UNCHANGED <<calls, loads>>
  /\ Finish([op |-> "get_default_config"],
            Outcome(NoExc, get_default_config, _config_cache, <<>>, {}))

GetModelName ==
  Request([op |-> "get_model_name"], get_model_name(_config_cache, environ))

\* The process (a test, a caller) sets or unsets one of the variables.
PutEnv ==
  \E name \in EnvNames :
    \E value \in EnvValues(name) :
      /\ value # environ[name]
      /\ environ' = [environ EXCEPT ![name] = value]
      /\ call' = [op |-> "putenv", name |-> name]
      /\ prev_cache' = _config_cache
      /\ ret' = PyNone
      /\ exc' = NoExc
      /\ stdout' = <<>>
      /\ reads' = {}
      /\ UNCHANGED <<_config_cache, calls, loads, cleared_model, concVars, restVars>>

Next ==
  \/ LoadConfig
  \/ LoadConfigForced
  \/ GetConfigValue
  \/ ClearConfigCache
  \/ ReloadConfig
  \/ GetDefaultConfig
  \/ GetModelName
  \/ PutEnv

Spec == Init /\ [][Next]_vars

---------------------------------------------------------------------------
(* Concurrent callers of load_config, with no lock and the environment     *)
(* fixed: a caller runs load_config line by line, and the callers' lines   *)
(* interleave.  Each read and each write of _config_cache is one step.     *)

\* Line 52: the test of the cache, and where it leads
Branch52(cache, force_reload) ==
  IF cache # PyNone /\ ~force_reload THEN "line53" ELSE "line55"

\* Mutant of After: the tree is stored in the cache before it is filled
AfterStoreFirst(line) ==
  CASE line = "line53" -> "idle"
    [] line = "line55" -> "line75"
    [] line = "line75" -> "line58"
    [] line = "line58" -> "line61"
    [] line = "line61" -> "line67"
    [] line = "line67" -> "line76"
    [] line = "line76" -> "idle"

\* The statement that follows a statement of lines 53-76
After(line) ==
  CASE line = "line53" -> "idle"
    [] line = "line55" -> "line58"
    [] line = "line58" -> "line61"
    [] line = "line61" -> "line67"
    [] line = "line67" -> "line75"
    [] line = "line75" -> "line76"
    [] line = "line76" -> "idle"

Raised(e) == [t |-> "raised", v |-> e]

Goto(t, line) == pc' = [pc EXCEPT ![t] = line]
SetConfig(t, config) == frame' = [frame EXCEPT ![t].config = config]
Return(t, value) == result' = [result EXCEPT ![t] = value]

Enter(t) ==
  /\ pc[t] = "idle"
  /\ \E force_reload \in BOOLEAN :
       frame' = [frame EXCEPT ![t] = [force_reload |-> force_reload, config |-> PyNone]]
  /\ Goto(t, "line52")
  /\ Return(t, NotReturned)
  /\ UNCHANGED <<environ, _config_cache, seqVars, restVars>>

Line52(t) ==
  /\ pc[t] = "line52"
  /\ Goto(t, Branch52(_config_cache, frame[t].force_reload))
  /\ UNCHANGED <<environ, _config_cache, frame, result, seqVars, restVars>>

Line53(t) ==
  /\ pc[t] = "line53"
  /\ Return(t, _config_cache)
  /\ Goto(t, After("line53"))
  /\ UNCHANGED <<environ, _config_cache, frame, seqVars, restVars>>

Line55(t) ==
  /\ pc[t] = "line55"
  /\ SetConfig(t, get_default_config)
  /\ Goto(t, After("line55"))
  /\ UNCHANGED <<environ, _config_cache, result, seqVars, restVars>>

Line58(t) ==
  /\ pc[t] = "line58"
  /\ SetConfig(t, ApplyApiKey(frame[t].config, environ))
  /\ Goto(t, After("line58"))
  /\ UNCHANGED <<environ, _config_cache, result, seqVars, restVars>>

Line61(t) ==
  /\ pc[t] = "line61"
  /\ SetConfig(t, ApplyModel(frame[t].config, environ).config)
  /\ Goto(t, After("line61"))
  /\ UNCHANGED <<environ, _config_cache, result, seqVars, restVars>>

\* The outcome of lines 67-72: on with the tree, or out with the exception
Leave67(t, tempered) ==
  IF tempered.exc # NoExc
  THEN Goto(t, "idle") /\ Return(t, Raised(tempered.exc)) /\ UNCHANGED frame
  ELSE Goto(t, After("line67")) /\ SetConfig(t, tempered.config) /\ UNCHANGED result

Line67(t) ==
  /\ pc[t] = "line67"
  /\ Leave67(t, ApplyTemperature(frame[t].config, environ))
  /\ UNCHANGED <<environ, _config_cache, seqVars, restVars>>

Line75(t) ==
  /\ pc[t] = "line75"
  /\ _config_cache' = frame[t].config
  /\ Goto(t, After("line75"))
  /\ UNCHANGED <<environ, frame, result, seqVars, restVars>>

Line76(t) ==
  /\ pc[t] = "line76"
  /\ Return(t, frame[t].config)
  /\ Goto(t, After("line76"))
  /\ UNCHANGED <<environ, _config_cache, frame, seqVars, restVars>>

ConcNext ==
  \E t \in Callers :
    \/ Enter(t)
    \/ Line52(t)
    \/ Line53(t)
    \/ Line55(t)
    \/ Line58(t)
    \/ Line61(t)
    \/ Line67(t)
    \/ Line75(t)
    \/ Line76(t)

ConcSpec == Init /\ [][ConcNext]_vars

---------------------------------------------------------------------------
(* Properties *)

Openrouter(tree) == tree.v["openrouter"].v
Unset(value) == value \in {PyNone, PyStr("")}
ResolveRequests == {"load_config", "get_config_value", "get_model_name"}

\* The last call resolved: it read the environment and stored a tree.  The
\* environment is still the one it read, since PutEnv is a call of its own.
Resolved == reads # {} /\ exc = NoExc

\* What a resolution under env yields, from an empty cache
FreshTree(env) == Resolve(PyNone, env).cache

(* C1: with the cache populated, load_config(force_reload=False) returns the
   cached tree, leaves the cache as it was, reads no environment variable and
   prints nothing, whatever the environment has become; and among the unforced
   resolve requests of one cache epoch at most one reads the environment. *)
CachedResolveReusesTree ==
  /\ (call.op = "load_config" /\ ~call.force_reload /\ prev_cache # PyNone) =>
       /\ exc = NoExc
       /\ ret = prev_cache
       /\ _config_cache = prev_cache
       /\ reads = {}
       /\ stdout = <<>>
  /\ loads <= 1

\* A third request in a row is answered from the cache with a tree that the
\* environment of the moment would no longer produce.
StaleTreeReturned ==
  /\ call.op = "load_config" /\ ~call.force_reload
  /\ prev_cache # PyNone
  /\ calls = MaxCalls /\ loads = 1
  /\ ret # FreshTree(environ)

ModelPopulated(tree) ==
  /\ tree.t = "dict"
  /\ "openrouter" \in DOMAIN tree.v
  /\ "model" \in DOMAIN Openrouter(tree)
  /\ Openrouter(tree)["model"].t = "str"
  /\ Openrouter(tree)["model"].v # ""

(* C2: whenever the cache is populated, and in every tree load_config or
   reload_config returns, openrouter.model is a non-empty string; right after a
   resolution it is OPENROUTER_MODEL when that is set and not empty, and
   openrouter.default_model otherwise; get_model_name returns it and never
   takes its "model not set" branch. *)
ModelAlwaysPopulated ==
  /\ _config_cache # PyNone => ModelPopulated(_config_cache)
  /\ (call.op \in {"load_config", "reload_config"} /\ exc = NoExc) => ModelPopulated(ret)
  /\ Resolved =>
       Openrouter(_config_cache)["model"] =
         IF Unset(environ.OPENROUTER_MODEL)
         THEN Openrouter(_config_cache)["default_model"]
         ELSE environ.OPENROUTER_MODEL
  /\ call.op = "get_model_name" =>
       /\ exc = NoExc
       /\ ret = Openrouter(_config_cache)["model"]
       /\ \A i \in 1..Len(stdout) : stdout[i].msg # "Model not set in .env, using default"

\* A resolution under OPENROUTER_MODEL="" has fallen back to the default model.
EmptyModelFallsBack ==
  /\ Resolved
  /\ environ.OPENROUTER_MODEL = PyStr("")
  /\ Openrouter(_config_cache)["model"] = PyStr("google/gemini-flash-1.5")

(* C3: the resolve request that follows clear_config_cache rebuilds the tree
   from the defaults and the environment of that moment: it reads the three
   variables, and the tree it caches is the one a first resolution under that
   environment yields, with openrouter.model the variable's value when set and
   not empty and openrouter.default_model otherwise. *)
ResolveAfterClearIsFresh ==
  [][(call.op = "clear_config_cache" /\ call'.op \in ResolveRequests) =>
       /\ exc' = NoExc
       /\ reads' = EnvNames
       /\ _config_cache' = FreshTree(environ')
       /\ Openrouter(_config_cache')["model"] =
            IF Unset(environ'.OPENROUTER_MODEL)
            THEN PyStr("google/gemini-flash-1.5")
            ELSE environ'.OPENROUTER_MODEL]_vars

\* The tree dropped by clear_config_cache had model "foo"; the variable was
\* unset; the resolution after the clear gives the default model.
UnsetModelSeenAfterClear ==
  /\ call.op = "load_config" /\ ~call.force_reload
  /\ prev_cache = PyNone
  /\ cleared_model = PyStr("foo")
  /\ environ.OPENROUTER_MODEL = PyNone
  /\ Resolved
  /\ Openrouter(_config_cache)["model"] = Openrouter(_config_cache)["default_model"]

NotANumber == <<"n", "o", "t", "-", "a", "-", "n", "u", "m", "b", "e", "r">>

\* The texts of OPENROUTER_TEMPERATURE that float() rejects
Unparseable(value) ==
  value \in {PyStr(<<>>), PyStr(NotANumber), PyStr(<<"0", ".", "7", ".", "1">>)}

(* C4: a resolution under an OPENROUTER_TEMPERATURE that is no float raises
   nothing, stores the tree it returns, applies the API key and the model as
   usual, and leaves openrouter.temperature at the default 0.3. *)
TemperatureFallback ==
  (reads # {} /\ Unparseable(environ.OPENROUTER_TEMPERATURE)) =>
    /\ exc = NoExc
    /\ _config_cache # PyNone
    /\ (call.op \in {"load_config", "reload_config"} => ret = _config_cache)
    /\ Openrouter(_config_cache)["temperature"] = PyFloat([m |-> 3, e |-> -1])
    /\ IF Unset(environ.OPENROUTER_API_KEY)
       THEN "api_key" \notin DOMAIN Openrouter(_config_cache)
       ELSE /\ "api_key" \in DOMAIN Openrouter(_config_cache)
            /\ Openrouter(_config_cache)["api_key"] = environ.OPENROUTER_API_KEY
    /\ Openrouter(_config_cache)["model"] =
         IF Unset(environ.OPENROUTER_MODEL)
         THEN Openrouter(_config_cache)["default_model"]
         ELSE environ.OPENROUTER_MODEL

\* A forced reload under "not-a-number" has replaced a cached temperature of
\* 0.7 by the default, with the API key and the model of the environment.
BadTemperatureReplacesCached ==
  /\ call.op = "reload_config"
  /\ prev_cache # PyNone
  /\ Openrouter(prev_cache)["temperature"] = PyFloat([m |-> 7, e |-> -1])
  /\ environ.OPENROUTER_TEMPERATURE = PyStr(NotANumber)
  /\ environ.OPENROUTER_API_KEY = PyStr("sk-or-v1-abc")
  /\ environ.OPENROUTER_MODEL = PyStr("foo")
  /\ exc = NoExc
  /\ Openrouter(_config_cache)["temperature"] = PyFloat([m |-> 3, e |-> -1])

\* What the tree holds at each key path asked for, default where the path
\* leads nowhere
ExpectedLookup(tree, key_path, default) ==
  CASE key_path = <<"openrouter", ".", "model">> -> Openrouter(tree)["model"]
    [] key_path = <<"openrouter", ".", "temperature">> -> Openrouter(tree)["temperature"]
    [] key_path = <<"openrouter", ".", "base_url">> -> PyStr("https://openrouter.ai/api/v1")
    [] key_path = <<"openrouter", ".", "api_key">> ->
         IF "api_key" \in DOMAIN Openrouter(tree) THEN Openrouter(tree)["api_key"] ELSE default
    [] key_path = <<"analysis", ".", "system_message">> ->
         tree.v["analysis"].v["system_message"]
    [] key_path = <<"openrouter">> -> tree.v["openrouter"]
    [] OTHER -> default

(* C5: get_config_value never raises; it returns the leaf or subtree at the
   key path, and the default when a segment is missing or the node reached is
   no dict: "openrouter.model" gives the tree's model, "openrouter.missing"
   with default "X" gives "X", a path through a leaf or under the absent
   api_key gives the default. *)
LookupFollowsPath ==
  call.op = "get_config_value" =>
    /\ exc = NoExc
    /\ _config_cache # PyNone
    /\ ret = ExpectedLookup(_config_cache, call.key_path, call.default)

\* "openrouter.model.x" was asked for with default "X": the leaf stops the walk.
LeafStopsWalk ==
  /\ call.op = "get_config_value"
  /\ call.key_path = <<"openrouter", ".", "model", ".", "x">>
  /\ call.default = PyStr("X")
  /\ ret = PyStr("X")

(* C6: reload_config does what load_config(force_reload=True) does from the
   same cache and environment: it reads the environment whatever the cache
   holds, and the tree it returns is the tree it leaves in the cache, the one a
   first resolution under that environment yields. *)
ReloadIsForcedResolve ==
  call.op = "reload_config" =>
    /\ Outcome(exc, ret, _config_cache, stdout, reads) = load_config(prev_cache, environ, TRUE)
    /\ exc = NoExc
    /\ reads = EnvNames
    /\ ret = _config_cache
    /\ _config_cache = FreshTree(environ)

\* A reload has replaced a populated cache by a different tree.
ReloadReplacedCache ==
  /\ call.op = "reload_config"
  /\ prev_cache # PyNone
  /\ _config_cache # prev_cache

(* C7: clear_config_cache leaves the cache empty whatever it held, reads no
   environment variable, prints nothing, and clearing again changes nothing. *)
ClearEmptiesCache ==
  call.op = "clear_config_cache" =>
    /\ exc = NoExc
    /\ _config_cache = PyNone
    /\ reads = {}
    /\ stdout = <<>>
    /\ clear_config_cache(_config_cache).cache = _config_cache

\* The cache was cleared while populated, and has now been cleared again
\* while still empty.
ClearedTwice ==
  /\ call.op = "clear_config_cache"
  /\ prev_cache = PyNone
  /\ cleared_model # PyNone

(* C8: get_default_config returns the hardcoded baseline tree, with no api_key
   and no model entry, whatever the environment and the cache hold, and leaves
   the cache as it was. *)
DefaultsArePure ==
  call.op = "get_default_config" =>
    /\ exc = NoExc
    /\ _config_cache = prev_cache
    /\ reads = {}
    /\ stdout = <<>>
    /\ DOMAIN ret.v = {"openrouter", "prompts", "analysis"}
    /\ DOMAIN Openrouter(ret) = {"default_model", "temperature", "base_url"}
    /\ Openrouter(ret)["default_model"] = PyStr("google/gemini-flash-1.5")
    /\ Openrouter(ret)["temperature"] = PyFloat([m |-> 3, e |-> -1])
    /\ Openrouter(ret)["base_url"] = PyStr("https://openrouter.ai/api/v1")
    /\ ret.v["prompts"] = PyDict([directory |-> PyStr("prompts")])
    /\ DOMAIN ret.v["analysis"].v = {"system_message"}

\* The defaults were asked for while the cache held a tree with an API key, a
\* custom model and a custom temperature.
DefaultsBesideOverriddenCache ==
  /\ call.op = "get_default_config"
  /\ _config_cache # PyNone
  /\ "api_key" \in DOMAIN Openrouter(_config_cache)
  /\ Openrouter(_config_cache)["model"] = PyStr("foo")
  /\ Openrouter(_config_cache)["temperature"] = PyFloat([m |-> 7, e |-> -1])

(* C9, as claimed: after a resolution openrouter.api_key is the value of
   OPENROUTER_API_KEY whenever the variable is present, and there is no
   api_key entry when it is absent. *)
ApiKeyCopiedWhenPresent ==
  Resolved =>
    IF environ.OPENROUTER_API_KEY # PyNone
    THEN /\ "api_key" \in DOMAIN Openrouter(_config_cache)
         /\ Openrouter(_config_cache)["api_key"] = environ.OPENROUTER_API_KEY
    ELSE "api_key" \notin DOMAIN Openrouter(_config_cache)

(* C9, amended: after a resolution openrouter.api_key is the value of
   OPENROUTER_API_KEY when the variable is set and not empty; when it is absent
   or empty there is no api_key entry, and get_config_value("openrouter.api_key")
   returns the caller's default. *)
ApiKeyCopiedWhenNotEmpty ==
  /\ Resolved =>
       IF Unset(environ.OPENROUTER_API_KEY)
       THEN "api_key" \notin DOMAIN Openrouter(_config_cache)
       ELSE /\ "api_key" \in DOMAIN Openrouter(_config_cache)
            /\ Openrouter(_config_cache)["api_key"] = environ.OPENROUTER_API_KEY
  /\ (/\ Resolved
      /\ call.op = "get_config_value"
      /\ call.key_path = <<"openrouter", ".", "api_key">>
      /\ Unset(environ.OPENROUTER_API_KEY)) => ret = call.default

\* Under OPENROUTER_API_KEY="" a lookup of "openrouter.api_key" that resolved
\* has returned the default "X".
EmptyApiKeyGivesDefault ==
  /\ Resolved
  /\ environ.OPENROUTER_API_KEY = PyStr("")
  /\ call.op = "get_config_value"
  /\ call.key_path = <<"openrouter", ".", "api_key">>
  /\ call.default = PyStr("X")
  /\ ret = PyStr("X")

(* C10: with concurrent callers, no lock and a fixed environment, every value
   load_config returns, and every value the cache holds, is the completely
   built tree a single resolution under that environment yields; no caller
   gets an exception or a tree still being filled. *)
ConcurrentCallersAgree ==
  /\ _config_cache # PyNone => _config_cache = FreshTree(environ)
  /\ \A t \in Callers : result[t] # NotReturned => result[t] = FreshTree(environ)

\* Two callers that both found the cache empty have both resolved: each is
\* about to return a tree of its own.
RedundantResolution ==
  \E t1, t2 \in Callers :
    /\ t1 # t2
    /\ ~frame[t1].force_reload /\ ~frame[t2].force_reload
    /\ pc[t1] = "line76" /\ pc[t2] = "line76"

---------------------------------------------------------------------------
(* src/core/prompt_loader.py: the prompt store.                            *)
(*                                                                         *)
(* A path, a prompt name and the text of a file are sequences of tokens.   *)
(* In a path the token "/" is the separator and every other token is text  *)
(* without one.  In a text the tokens of Whitespace are the white space,   *)
(* "{" and "}" are the braces str.format looks at, and every other token   *)
(* is text free of brace and of leading or trailing white space.           *)
(*                                                                         *)
(* fs is a function from the files below the working directory, each named *)
(* by the components of its relative path, to what is there:               *)
(* [kind |-> "dir"] or [kind |-> "file", content |-> text].                *)

Sep == "/"

\* f"{prompt_name}.txt", line 23
FileName(prompt_name) == Append(prompt_name, ".txt")

\* os.path.join(a, b) of posixpath, line 23: an absolute b discards a, and
\* no separator is added to an empty a or to one that ends with a separator
join(a, b) ==
  IF b # <<>> /\ Head(b) = Sep THEN b
  ELSE IF a = <<>> \/ a[Len(a)] = Sep THEN a \o b
  ELSE a \o <<Sep>> \o b

\* the components of a path, as the kernel walks them: empty components
\* are skipped
RECURSIVE ComponentsFrom(_, _, _)
ComponentsFrom(tokens, piece, done) ==
  IF tokens = <<>> THEN (IF piece = "" THEN done ELSE Append(done, piece))
  ELSE IF Head(tokens) = Sep
       THEN ComponentsFrom(Tail(tokens), "", IF piece = "" THEN done ELSE Append(done, piece))
       ELSE ComponentsFrom(Tail(tokens), piece \o Head(tokens), done)

Components(path) == ComponentsFrom(path, "", <<>>)

IsAbsolute(path) == path # <<>> /\ Head(path) = Sep

\* what is at the relative path whose components are parts; the working
\* directory itself is a directory
Kind(files, parts) ==
  IF parts = <<>> THEN "dir"
  ELSE IF parts \in DOMAIN files THEN files[parts].kind
  ELSE "absent"

\* the leading components of parts that are not a directory, shortest first
Blocked(files, parts) ==
  {n \in 1..(Len(parts) - 1) : Kind(files, SubSeq(parts, 1, n)) # "dir"}

FirstBlocked(files, parts) ==
  CHOOSE n \in Blocked(files, parts) : \A m \in Blocked(files, parts) : n <= m

Opened(e, text) == [exc |-> e, content |-> text]

\* open(path, 'r') and f.read() on the relative path with components parts,
\* line 26-27: ENOTDIR where a leading component is a file, ENOENT where a
\* component is missing, EISDIR where the path names a directory
OpenRelative(files, parts) ==
  IF Blocked(files, parts) # {}
  THEN IF Kind(files, SubSeq(parts, 1, FirstBlocked(files, parts))) = "file"
       THEN Opened("NotADirectoryError", <<>>)
       ELSE Opened("FileNotFoundError", <<>>)
  ELSE IF Kind(files, parts) = "dir" THEN Opened("IsADirectoryError", <<>>)
  ELSE IF Kind(files, parts) = "absent" THEN Opened("FileNotFoundError", <<>>)
  ELSE Opened(NoExc, files[parts].content)

\* open on any path: the empty path names nothing, and nothing the prompt
\* loader can see lies outside the working directory but the root itself
open(files, path) ==
  IF path = <<>> THEN Opened("FileNotFoundError", <<>>)
  ELSE IF ~IsAbsolute(path) THEN OpenRelative(files, Components(path))
  ELSE IF Components(path) = <<>> THEN Opened("IsADirectoryError", <<>>)
  ELSE Opened("FileNotFoundError", <<>>)

PromptOutcome(e, msg, r) == [exc |-> e, message |-> msg, ret |-> r]

\* str(e) of the OSError that open raised
strerror(e, path) ==
  IF e = "NotADirectoryError" THEN <<"[Errno 20] Not a directory: ", "'">> \o path \o <<"'">>
  ELSE IF e = "IsADirectoryError" THEN <<"[Errno 21] Is a directory: ", "'">> \o path \o <<"'">>
  ELSE <<"[Errno 2] No such file or directory: ", "'">> \o path \o <<"'">>

\* load_prompt without the strip() of line 27
ReadUnstripped(prompt_path, opened) ==
  IF opened.exc = "FileNotFoundError"
  THEN PromptOutcome("FileNotFoundError", <<"Prompt file not found: ">> \o prompt_path, PyNone)
  ELSE IF opened.exc # NoExc
  THEN PromptOutcome(opened.exc, strerror(opened.exc, prompt_path), PyNone)
  ELSE PromptOutcome(NoExc, <<>>, PyStr(opened.content))

\* load_prompt, lines 25-29: the text stripped, FileNotFoundError raised
\* again with the path in its message, every other error passed on
Read(prompt_path, opened) ==
  IF opened.exc = "FileNotFoundError"
  THEN PromptOutcome("FileNotFoundError", <<"Prompt file not found: ">> \o prompt_path, PyNone)
  ELSE IF opened.exc # NoExc
  THEN PromptOutcome(opened.exc, strerror(opened.exc, prompt_path), PyNone)
  ELSE PromptOutcome(NoExc, <<>>, PyStr(Strip(opened.content)))

\* load_prompt, lines 23-24
ReadAt(files, prompt_path) == Read(prompt_path, open(files, prompt_path))

load_prompt(files, prompt_name, prompts_dir) ==
  ReadAt(files, join(prompts_dir, FileName(prompt_name)))

---------------------------------------------------------------------------
(* The prompt store's inputs and the files around it *)

PromptNames == {<<"sentiment_analysis">>, <<"missing">>, <<Sep, "tmp", Sep, "sentiment_analysis">>}

\* the default of load_prompt's prompts_dir, line 9
DefaultPromptsDir == <<"prompts">>

PromptDirs == {DefaultPromptsDir, <<"alt">>, <<"prompts", Sep>>}

Templates ==
  {<<"Review:", " ", "{", "review_text", "}">>,
   <<"\n", " ", "Review:", " ", "{", "review_text", "}", " ", "\n">>,
   <<"{", "review_text", "}", " ", "about", " ", "{", "product", "}", "\n">>,
   <<"{", "{", "Hello", "}", "}", " ", "{", "template", "}">>}

\* what can be at <directory>/sentiment_analysis.txt
ChildStates ==
  {[kind |-> "absent"], [kind |-> "dir"]}
    \cup {[kind |-> "file", content |-> text] : text \in Templates}

\* what can be at a directory's path: nothing, a regular file, or a
\* directory with what it holds
DirStates ==
  {[kind |-> "absent"], [kind |-> "file"]}
    \cup {[kind |-> "dir", child |-> c] : c \in ChildStates}

Node(state) ==
  IF state.kind = "file" /\ "content" \in DOMAIN state
  THEN [kind |-> "file", content |-> state.content]
  ELSE IF state.kind = "file" THEN [kind |-> "file", content |-> <<>>]
  ELSE [kind |-> "dir"]

DirTree(dir, state) ==
  IF state.kind = "absent" THEN <<>>
  ELSE IF state.kind = "file" \/ state.child.kind = "absent"
  THEN (<<dir>> :> Node(state))
  ELSE (<<dir>> :> Node(state)) @@ (<<dir, "sentiment_analysis.txt">> :> Node(state.child))

\* the second directory is missing or holds the first template
AltStates ==
  {[kind |-> "absent"],
   [kind |-> "dir",
    child |-> [kind |-> "file", content |-> <<"Review:", " ", "{", "review_text", "}">>]]}

FileSystems ==
  {DirTree("prompts", p) @@ DirTree("alt", a) : p \in DirStates, a \in AltStates}

\* A call c of prompt_loader.py ends with outcome o; nothing of config.py
\* is touched.
PromptFinish(c, o) ==
  /\ call' = c
  /\ prev_cache' = _config_cache
  /\ ret' = o.ret
  /\ exc' = o.exc
  /\ message' = o.message
  /\ stdout' = <<>>
  /\ reads' = {}
  /\ UNCHANGED <<environ, _config_cache, fs, calls, loads, cleared_model, concVars,
                 treeVars>>

LoadPrompt ==
  \E prompt_name \in PromptNames, prompts_dir \in PromptDirs :
    PromptFinish([op |-> "load_prompt", prompt_name |-> prompt_name, prompts_dir |-> prompts_dir],
                 load_prompt(fs, prompt_name, prompts_dir))

\* Someone creates, replaces or removes files between two calls.
ChangeFiles ==
  /\ fs' \in FileSystems \ {fs}
  /\ call' = [op |-> "change_files"]
  /\ UNCHANGED <<environ, _config_cache, ret, exc, stdout, reads, prev_cache,
                 calls, loads, cleared_model, concVars, message, treeVars>>

---------------------------------------------------------------------------
(* src/core/prompt_loader.py: the template formatter.                      *)
(*                                                                         *)
(* The keyword arguments of a call are a function from names to texts.     *)

FormatOutcome(e, msg, text) == [exc |-> e, message |-> msg, text |-> text]

\* template.format(**kwargs), line 47, read left to right as str.format
\* reads it: "{{" and "}}" are the braces themselves, "{name}" is replaced
\* by str(kwargs[name]) and raises KeyError(name) where kwargs has no name,
\* "{}" asks for a positional argument and there is none, a brace without
\* its partner is a ValueError.  The text of a value is not read again.
RECURSIVE Format(_, _, _)
Format(tokens, kwargs, done) ==
  IF tokens = <<>> THEN FormatOutcome(NoExc, <<>>, done)
  ELSE IF Head(tokens) = "}"
  THEN IF Len(tokens) >= 2 /\ tokens[2] = "}"
       THEN Format(SubSeq(tokens, 3, Len(tokens)), kwargs, Append(done, "}"))
       ELSE FormatOutcome("ValueError", <<"Single '}' encountered in format string">>, <<>>)
  ELSE IF Head(tokens) # "{"
  THEN Format(Tail(tokens), kwargs, Append(done, Head(tokens)))
  ELSE IF Len(tokens) = 1
  THEN FormatOutcome("ValueError", <<"Single '{' encountered in format string">>, <<>>)
  ELSE IF tokens[2] = "{"
  THEN Format(SubSeq(tokens, 3, Len(tokens)), kwargs, Append(done, "{"))
  ELSE IF tokens[2] = "}"
  THEN FormatOutcome("IndexError",
                     <<"Replacement index 0 out of range for positional args tuple">>, <<>>)
  ELSE IF Len(tokens) = 2 \/ tokens[3] # "}"
  THEN FormatOutcome("ValueError", <<"expected '}' before end of string">>, <<>>)
  ELSE IF tokens[2] \notin DOMAIN kwargs
  THEN FormatOutcome("KeyError", <<"'", tokens[2], "'">>, <<>>)
  ELSE Format(SubSeq(tokens, 4, Len(tokens)), kwargs, done \o kwargs[tokens[2]])

\* format_prompt, lines 46-49: KeyError raised again with the name in its
\* message, every other exception of str.format passed on
Formatted(formatted) ==
  IF formatted.exc = "KeyError"
  THEN PromptOutcome("KeyError",
                     <<"Missing required template variable: ">> \o formatted.message, PyNone)
  ELSE IF formatted.exc # NoExc
  THEN PromptOutcome(formatted.exc, formatted.message, PyNone)
  ELSE PromptOutcome(NoExc, <<>>, PyStr(formatted.text))

\* The call format_prompt(template, **variables) against the signature of
\* line 32, format_prompt(template, **kwargs): a keyword named as the
\* positional parameter is a second value for it, and Python refuses the
\* call with TypeError before the body runs.
format_prompt(template, variables) ==
  IF "template" \in DOMAIN variables
  THEN PromptOutcome("TypeError",
                     <<"format_prompt() got multiple values for argument ", "'", "template", "'">>,
                     PyNone)
  ELSE Formatted(Format(template, variables, <<>>))

\* the templates handed to format_prompt: the files' texts as load_prompt
\* returns them
FormatTemplates == {Strip(text) : text \in Templates}

NoVariables == [name \in {} |-> <<>>]

VariableSets ==
  {NoVariables,
   "review_text" :> <<"great">>,
   "product" :> <<"tea">>,
   ("review_text" :> <<"great">>) @@ ("product" :> <<"tea">>),
   ("review_text" :> <<"{", "product", "}">>) @@ ("unused" :> <<"x">>),
   ("review_text" :> <<"great">>) @@ ("template" :> <<"x">>),
   ("review_text" :> <<"great">>) @@ ("prompt_name" :> <<"x">>)}

FormatPrompt ==
  \E template \in FormatTemplates, variables \in VariableSets :
    PromptFinish([op |-> "format_prompt", template |-> template, variables |-> variables],
                 format_prompt(template, variables))

\* load_and_format_prompt, line 64: the template of line 63 formatted,
\* where load_prompt returned one
FormatLoaded(loaded, variables) ==
  IF loaded.exc # NoExc THEN loaded
  ELSE format_prompt(loaded.ret.v, variables)

\* The call load_and_format_prompt(prompt_name, **variables) against the
\* signature of line 52, load_and_format_prompt(prompt_name, **kwargs): a
\* keyword named prompt_name is refused with TypeError before the body
\* runs; the body loads from the default directory (line 63) and formats.
load_and_format_prompt(files, prompt_name, variables) ==
  IF "prompt_name" \in DOMAIN variables
  THEN PromptOutcome("TypeError",
                     <<"load_and_format_prompt() got multiple values for argument ",
                       "'", "prompt_name", "'">>,
                     PyNone)
  ELSE FormatLoaded(load_prompt(files, prompt_name, DefaultPromptsDir), variables)

LoadAndFormatPrompt ==
  \E prompt_name \in PromptNames, variables \in VariableSets :
    PromptFinish([op |-> "load_and_format_prompt", prompt_name |-> prompt_name,
                  variables |-> variables],
                 load_and_format_prompt(fs, prompt_name, variables))

---------------------------------------------------------------------------
(* The prompt loader's specification: its three functions called one at a  *)
(* time, files changing between the calls, the configuration cache filled  *)
(* and emptied meanwhile.                                                  *)

PromptInit ==
  /\ Init
  /\ environ["OPENROUTER_MODEL"] = PyNone
  /\ environ["OPENROUTER_TEMPERATURE"] = PyNone

PromptNext ==
  \/ LoadPrompt
  \/ FormatPrompt
  \/ LoadAndFormatPrompt
  \/ ChangeFiles
  \/ ReloadConfig
  \/ ClearConfigCache

PromptSpec == PromptInit /\ [][PromptNext]_vars

---------------------------------------------------------------------------
(* Properties of the prompt loader *)

\* '<directory>/<name>.txt'
ConventionalPath(directory, name) == directory \o <<Sep>> \o name \o <<".txt">>

\* a regular file is at the path
FileAt(path) == ~IsAbsolute(path) /\ Kind(fs, Components(path)) = "file"

\* nothing is at the path, and no leading component of it is a regular file
\* (each is a directory or missing itself)
MissingAt(path) ==
  \/ IsAbsolute(path) /\ Components(path) # <<>>
  \/ /\ ~IsAbsolute(path)
     /\ Kind(fs, Components(path)) = "absent"
     /\ \A n \in 1..(Len(Components(path)) - 1) :
          Kind(fs, SubSeq(Components(path), 1, n)) # "file"

\* text is whole without its leading and trailing white space
IsStripOf(text, whole) ==
  /\ text # <<>> => Head(text) \notin Whitespace /\ text[Len(text)] \notin Whitespace
  /\ \E i \in 0..Len(whole) :
       /\ i + Len(text) <= Len(whole)
       /\ SubSeq(whole, i + 1, i + Len(text)) = text
       /\ \A k \in 1..Len(whole) : (k <= i \/ k > i + Len(text)) => whole[k] \in Whitespace

NotFoundMessage(path) == <<"Prompt file not found: ">> \o path

\* C11 as stated: load_prompt(name, directory) raises FileNotFoundError, its
\* message carrying '<directory>/<name>.txt', exactly when no file is at
\* that path, returns the stripped content when one is, and leaves the
\* configuration cache alone.
LoadFailsExactlyWhenNoFile ==
  call.op = "load_prompt" =>
    /\ exc = "FileNotFoundError"
         <=> ~FileAt(ConventionalPath(call.prompts_dir, call.prompt_name))
    /\ exc = "FileNotFoundError"
         => message = NotFoundMessage(ConventionalPath(call.prompts_dir, call.prompt_name))
    /\ FileAt(ConventionalPath(call.prompts_dir, call.prompt_name))
         => /\ exc = NoExc
            /\ ret.t = "str"
            /\ IsStripOf(ret.v, fs[Components(ConventionalPath(call.prompts_dir, call.prompt_name))].content)
    /\ _config_cache = prev_cache

\* the path load_prompt opens: os.path.join(directory, name + '.txt')
AttemptedPath == join(call.prompts_dir, FileName(call.prompt_name))

\* C11, amended: load_prompt raises FileNotFoundError, its message carrying
\* the path it opened, exactly when open reports that path missing (nothing
\* is at it and no leading component is a regular file); a path that runs
\* through a regular file or names a directory raises open's own
\* NotADirectoryError or IsADirectoryError; a file at the path is returned
\* stripped; the path is '<directory>/<name>.txt' for a relative name and a
\* directory without trailing separator; the configuration cache is left
\* alone in every case.
LoadFailsExactlyWhenMissing ==
  call.op = "load_prompt" =>
    /\ exc = "FileNotFoundError" <=> MissingAt(AttemptedPath)
    /\ exc = "FileNotFoundError"
         => message = NotFoundMessage(AttemptedPath) /\ ret = PyNone
    /\ (~IsAbsolute(call.prompt_name) /\ call.prompts_dir[Len(call.prompts_dir)] # Sep)
         => AttemptedPath = ConventionalPath(call.prompts_dir, call.prompt_name)
    /\ FileAt(AttemptedPath)
         => /\ exc = NoExc
            /\ ret.t = "str"
            /\ IsStripOf(ret.v, fs[Components(AttemptedPath)].content)
    /\ (~FileAt(AttemptedPath) /\ ~MissingAt(AttemptedPath))
         => exc \in {"NotADirectoryError", "IsADirectoryError"} /\ ret = PyNone
    /\ _config_cache = prev_cache

\* C11 witness: with the cache populated, a prompt whose file is missing
\* from an existing directory is asked for and the error names the path
MissingPromptReported ==
  /\ call.op = "load_prompt"
  /\ _config_cache # PyNone
  /\ Kind(fs, <<"prompts">>) = "dir"
  /\ exc = "FileNotFoundError"
  /\ message = <<"Prompt file not found: ", "prompts", "/", "missing", ".txt">>

\* the placeholders a template references
Placeholders(template) ==
  {template[i + 1] : i \in {j \in 1..(Len(template) - 2) :
                              template[j] = "{" /\ template[j + 2] = "}"}}

\* the template with each placeholder replaced by its value
RECURSIVE Substituted(_, _)
Substituted(template, variables) ==
  IF template = <<>> THEN <<>>
  ELSE IF Len(template) >= 3 /\ template[1] = "{" /\ template[3] = "}"
  THEN variables[template[2]] \o Substituted(SubSeq(template, 4, Len(template)), variables)
  ELSE <<Head(template)>> \o Substituted(Tail(template), variables)

MissingVariableMessage(name) == <<"Missing required template variable: ", "'", name, "'">>

\* C12: format_prompt(template, variables) raises the missing-variable
\* KeyError, naming a placeholder the variables lack, whenever the template
\* references one, and returns nothing then; when every placeholder is
\* supplied it returns the template with each placeholder replaced by its
\* value, whatever other variables are passed along.
FormatSubstitutesOrNamesMissing ==
  call.op = "format_prompt" =>
    /\ Placeholders(call.template) \ DOMAIN call.variables # {}
         => /\ exc = "KeyError"
            /\ ret = PyNone
            /\ \E name \in Placeholders(call.template) \ DOMAIN call.variables :
                 message = MissingVariableMessage(name)
    /\ Placeholders(call.template) \subseteq DOMAIN call.variables
         => /\ exc = NoExc
            /\ ret = PyStr(Substituted(call.template, call.variables))

\* C12 without the names the signatures of prompt_loader.py take for
\* themselves: what the claim says holds of every call whose variables are
\* not named template
FormatSubstitutesUnlessReserved ==
  (call.op = "format_prompt" /\ "template" \notin DOMAIN call.variables)
    => FormatSubstitutesOrNamesMissing

\* the example of C12 is formatted, an unused variable beside it
ExampleFormatted ==
  /\ call.op = "format_prompt"
  /\ call.template = <<"Review:", " ", "{", "review_text", "}">>
  /\ "product" \in DOMAIN call.variables
  /\ ret = PyStr(<<"Review:", " ", "great">>)

\* load(name) of the call in call, from the default directory
LoadedNow == load_prompt(fs, call.prompt_name, DefaultPromptsDir)

\* C13: load_and_format_prompt(name, variables) is load_prompt followed by
\* format_prompt: where both succeed it returns what
\* format_prompt(load_prompt(name), variables) returns; where the file is
\* missing it raises load_prompt's FileNotFoundError, whatever the
\* variables; where the file is there and a placeholder is not supplied it
\* raises the missing-variable KeyError.
LoadAndFormatIsComposition ==
  call.op = "load_and_format_prompt" =>
    /\ (LoadedNow.exc = NoExc /\ format_prompt(LoadedNow.ret.v, call.variables).exc = NoExc)
         => /\ exc = NoExc
            /\ ret = format_prompt(LoadedNow.ret.v, call.variables).ret
    /\ LoadedNow.exc = "FileNotFoundError"
         => exc = "FileNotFoundError" /\ message = LoadedNow.message
    /\ (LoadedNow.exc = NoExc /\ Placeholders(LoadedNow.ret.v) \ DOMAIN call.variables # {})
         => /\ exc = "KeyError"
            /\ \E name \in Placeholders(LoadedNow.ret.v) \ DOMAIN call.variables :
                 message = MissingVariableMessage(name)

\* what C13 says holds of every call whose variables are named neither
\* prompt_name nor template
LoadAndFormatComposesUnlessReserved ==
  (/\ call.op = "load_and_format_prompt"
   /\ "prompt_name" \notin DOMAIN call.variables
   /\ "template" \notin DOMAIN call.variables)
    => LoadAndFormatIsComposition

\* a prompt is loaded from prompts/ and formatted in one call
LoadedAndFormatted ==
  /\ call.op = "load_and_format_prompt"
  /\ exc = NoExc
  /\ ret = PyStr(<<"Review:", " ", "great">>)

---------------------------------------------------------------------------
(* Properties of get_config_value's lazy resolution *)

\* the lines a resolution under env prints: one for a model that is set and
\* not empty, one for a temperature that is set and not empty
NoticeCount(env) ==
  (IF Unset(env.OPENROUTER_MODEL) THEN 0 ELSE 1)
    + (IF env.OPENROUTER_TEMPERATURE \in {PyNone, PyStr(<<>>)} THEN 0 ELSE 1)

\* A get_config_value step: on an empty cache it resolves once, reading
\* every variable, printing the notices and storing a tree; on a populated
\* cache it reads nothing, prints nothing and leaves the cache as it is.
LazyStep ==
  /\ exc' = NoExc
  /\ _config_cache = PyNone
       => /\ reads' = EnvNames
          /\ loads' = loads + 1
          /\ Len(stdout') = NoticeCount(environ)
          /\ ModelPopulated(_config_cache')
  /\ _config_cache # PyNone
       => /\ reads' = {}
          /\ loads' = loads
          /\ stdout' = <<>>
          /\ _config_cache' = _config_cache

\* C14 as stated: get_config_value resolves once on an empty cache and
\* leaves it populated, does no resolution on a populated cache, and two
\* consecutive get_config_value calls for the same path return equal values.
SamePathSameValue ==
  [][call'.op = "get_config_value" =>
       /\ LazyStep
       /\ (call.op = "get_config_value" /\ call'.key_path = call.key_path)
            => ret' = ret]_vars

\* C14, amended: get_config_value resolves once on an empty cache and leaves
\* it populated, does no resolution on a populated cache, and two
\* consecutive get_config_value calls for the same path and the same default
\* return equal values.
SameCallSameValue ==
  [][call'.op = "get_config_value" =>
       /\ LazyStep
       /\ (/\ call.op = "get_config_value"
           /\ call'.key_path = call.key_path
           /\ call'.default = call.default)
            => ret' = ret]_vars

\* C14 witness: a lookup answered from the cache an earlier request of the
\* same epoch filled, for a path the tree does not hold, so that the
\* caller's default comes back
DefaultFromCachedTree ==
  /\ call = [op |-> "get_config_value", key_path |-> <<"openrouter", ".", "api_key">>,
             default |-> PyStr("X")]
  /\ prev_cache # PyNone
  /\ calls = 2 /\ loads = 1
  /\ reads = {}
  /\ ret = PyStr("X")

---------------------------------------------------------------------------
(* src/core/client.py: setup_openrouter_client *)

ApiKeyPath == <<"openrouter", ".", "api_key">>
BaseUrlPath == <<"openrouter", ".", "base_url">>

\* what the two lookups of one call printed and read, one after the other
Then(first, second) ==
  [second EXCEPT !.stdout = first.stdout \o second.stdout,
                 !.reads = first.reads \cup second.reads]

\* setup_openrouter_client, lines 33-38: the client, an OpenAI object
\* holding the two arguments it was built from
WithClient(api_key, based) ==
  IF based.exc # NoExc THEN Raise(based, based.exc)
  ELSE [based EXCEPT !.ret = [t |-> "OpenAI", base_url |-> based.ret, api_key |-> api_key]]

\* Mutant of Construct: the check of line 26 is left out
ConstructUnchecked(env, api_key, looked) ==
  IF looked.exc # NoExc THEN looked
  ELSE Then(looked,
            WithClient(api_key,
                       get_config_value(looked.cache, env, BaseUrlPath,
                                        PyStr("https://openrouter.ai/api/v1"))))

\* setup_openrouter_client, lines 26-36, with looked what the code did
\* before: ValueError for a key that is None or empty, else the base URL
\* looked up and the client built
Construct(env, api_key, looked) ==
  IF looked.exc # NoExc THEN looked
  ELSE IF ~Truthy(api_key) THEN Raise(looked, "ValueError")
  ELSE Then(looked,
            WithClient(api_key,
                       get_config_value(looked.cache, env, BaseUrlPath,
                                        PyStr("https://openrouter.ai/api/v1"))))

\* setup_openrouter_client, lines 23-24: the key looked up when the
\* parameter is None
ConstructLooked(env, looked) == Construct(env, looked.ret, looked)

setup_openrouter_client(cache, env, api_key) ==
  IF api_key = PyNone
  THEN ConstructLooked(env, get_config_value(cache, env, ApiKeyPath, PyNone))
  ELSE Construct(env, api_key, Outcome(NoExc, PyNone, cache, <<>>, {}))

\* the api_key parameter: left out, empty, or a key
ApiKeyArguments == {PyNone, PyStr(""), PyStr("sk-or-v1-param")}

\* how many unforced resolve requests the call made
RequestsOf(api_key, o) ==
  IF api_key = PyNone THEN (IF o.exc = NoExc THEN 2 ELSE 1)
  ELSE IF o.exc = NoExc THEN 1 ELSE 0

SetupFinish(c, o) ==
  /\ calls + RequestsOf(c.api_key, o) <= MaxCalls
  /\ calls' = calls + RequestsOf(c.api_key, o)
  /\ loads' = loads + (IF o.reads # {} THEN 1 ELSE 0)
  /\ Finish(c, o)

SetupOpenrouterClient ==
  \E api_key \in ApiKeyArguments :
    SetupFinish([op |-> "setup_openrouter_client", api_key |-> api_key],
                setup_openrouter_client(_config_cache, environ, api_key))

ClientNext == Next \/ SetupOpenrouterClient

ClientSpec == Init /\ [][ClientNext]_vars

---------------------------------------------------------------------------
(* Properties of client construction *)

\* the resolved configuration holds an API key: the cache as the call left
\* it, or as a resolution would fill it where the call consulted none
KeyConfigured ==
  IF _config_cache = PyNone THEN Truthy(environ.OPENROUTER_API_KEY)
  ELSE "api_key" \in DOMAIN Openrouter(_config_cache)

\* no call but client construction raises, and that one only ValueError
OnlyTheKeyCheckFails ==
  exc # NoExc => call.op = "setup_openrouter_client" /\ exc = "ValueError"

\* C15 as stated: setup_openrouter_client raises ValueError exactly when no
\* key comes as a parameter and none is in the resolved configuration; a
\* key passed as a parameter is the client's key; nothing else that touches
\* the configuration ever raises.
ClientFailsExactlyWithoutAnyKey ==
  /\ OnlyTheKeyCheckFails
  /\ call.op = "setup_openrouter_client" =>
       /\ exc = "ValueError" <=> (~Truthy(call.api_key) /\ ~KeyConfigured)
       /\ Truthy(call.api_key) => exc = NoExc /\ ret.api_key = call.api_key

\* C15, amended: setup_openrouter_client raises ValueError exactly when the
\* parameter is the empty string, or is None and the resolved configuration
\* holds no key; an empty parameter raises without the configuration being
\* consulted; a non-empty parameter is the client's key whatever is
\* configured, a None parameter gives the configured key; nothing else that
\* touches the configuration ever raises.
ClientFailsOnEmptyKey ==
  /\ OnlyTheKeyCheckFails
  /\ call.op = "setup_openrouter_client" =>
       /\ exc = "ValueError"
            <=> (call.api_key = PyStr("") \/ (call.api_key = PyNone /\ ~KeyConfigured))
       /\ call.api_key = PyStr("")
            => _config_cache = prev_cache /\ reads = {}
       /\ Truthy(call.api_key) => exc = NoExc /\ ret.api_key = call.api_key
       /\ (call.api_key = PyNone /\ KeyConfigured)
            => exc = NoExc /\ ret.api_key = Openrouter(_config_cache)["api_key"]
       /\ exc = NoExc => ret.base_url = PyStr("https://openrouter.ai/api/v1")

\* C15 witness: an empty key is passed while a key is configured, and the
\* construction fails
EmptyParameterBeatsConfiguredKey ==
  /\ call = [op |-> "setup_openrouter_client", api_key |-> PyStr("")]
  /\ _config_cache # PyNone
  /\ "api_key" \in DOMAIN Openrouter(_config_cache)
  /\ exc = "ValueError"

---------------------------------------------------------------------------
(* Callers that keep and modify the tree load_config returned.             *)
(*                                                                         *)
(* load_config returns the object _config_cache refers to (lines 53, 76),  *)
(* so a caller that modifies the tree it was given modifies the cache, as  *)
(* long as the cache still refers to that object.  A resolution builds its *)
(* tree from the dict literals of get_default_config (line 55), which      *)
(* shares nothing with any tree returned before; clear_config_cache and a  *)
(* resolution leave the caller with a tree the module no longer refers to. *)

TreeEnvValues(name) ==
  CASE name = "OPENROUTER_API_KEY" -> {PyNone, PyStr("sk-or-v1-abc")}
    [] name = "OPENROUTER_MODEL" -> {PyNone, PyStr("foo")}
    [] name = "OPENROUTER_TEMPERATURE" ->
         {PyNone, PyStr(<<"0", ".", "7">>),
          PyStr(<<"n", "o", "t", "-", "a", "-", "n", "u", "m", "b", "e", "r">>)}

TreeInit ==
  /\ Init
  /\ \A name \in EnvNames : environ[name] \in TreeEnvValues(name)

\* what a caller writes into the tree it holds
Modifications ==
  {[key |-> "model", value |-> PyStr("tampered")],
   [key |-> "api_key", value |-> PyStr("sk-stolen")],
   [key |-> "temperature", value |-> PyStr("hot")]}

\* a call of config.py by a caller that keeps what it is given
TreeFinish(c, o) ==
  /\ call' = c
  /\ prev_cache' = _config_cache
  /\ _config_cache' = o.cache
  /\ ret' = o.ret
  /\ exc' = o.exc
  /\ stdout' = o.stdout
  /\ reads' = o.reads
  /\ UNCHANGED <<environ, calls, loads, cleared_model, concVars, fs, message>>

\* the resolution just made is remembered, or the one remembered is kept
Remember(o) ==
  IF o.reads = {} THEN UNCHANGED earlier
  ELSE earlier' \in {earlier, [env |-> environ, tree |-> o.cache]}

\* load_config(force_reload): the caller keeps the returned tree, which is
\* the cached one
KeepLoaded(c, o) == TreeFinish(c, o) /\ Remember(o) /\ aliased' = TRUE

LoadAndKeep ==
  \E force_reload \in BOOLEAN :
    KeepLoaded([op |-> "load_config", force_reload |-> force_reload],
               load_config(_config_cache, environ, force_reload))

\* clear_config_cache: the caller's tree is no longer the cache's
ClearKept ==
  /\ TreeFinish([op |-> "clear_config_cache"], clear_config_cache(_config_cache))
  /\ aliased' = FALSE
  /\ UNCHANGED earlier

\* tree["openrouter"][key] = value by a caller whose tree is the cached one
ModifyKept ==
  /\ aliased
  /\ \E m \in Modifications :
       /\ m.key \in DOMAIN Openrouter(_config_cache)
            => Openrouter(_config_cache)[m.key] # m.value
       /\ _config_cache' = SetOpenrouter(_config_cache, m.key, m.value)
       /\ call' = [op |-> "modify", key |-> m.key]
  /\ prev_cache' = _config_cache
  /\ ret' = PyNone
  /\ exc' = NoExc
  /\ stdout' = <<>>
  /\ reads' = {}
  /\ UNCHANGED <<environ, calls, loads, cleared_model, concVars, fs, message, treeVars>>

TreePutEnv ==
  \E name \in EnvNames :
    \E value \in TreeEnvValues(name) :
      /\ value # environ[name]
      /\ environ' = [environ EXCEPT ![name] = value]
      /\ call' = [op |-> "putenv", name |-> name]
      /\ prev_cache' = _config_cache
      /\ ret' = PyNone
      /\ exc' = NoExc
      /\ stdout' = <<>>
      /\ reads' = {}
      /\ UNCHANGED <<_config_cache, calls, loads, cleared_model, concVars, restVars>>

TreeNext ==
  \/ LoadAndKeep
  \/ ClearKept
  \/ ModifyKept
  \/ TreePutEnv

TreeSpec == TreeInit /\ [][TreeNext]_vars

---------------------------------------------------------------------------
(* Properties of the resolved tree *)

\* C16: a resolution that reads the environment yields the tree that an
\* earlier resolution under the same values of the three variables
\* yielded, whatever was cached before it, however many clears and forced
\* reloads came between, and whatever a caller wrote into a tree it had been
\* given.
TreeDependsOnEnvironmentOnly ==
  (/\ call.op = "load_config"
   /\ reads # {}
   /\ earlier # PyNone
   /\ earlier.env = environ)
    => /\ exc = NoExc
       /\ _config_cache = earlier.tree
       /\ ret = earlier.tree

\* C16 witness: a forced reload over a cached tree into which a caller had
\* written an API key yields, the key being unset, the tree without key
\* that an earlier resolution under the same environment yielded
ModifiedTreeReplaced ==
  /\ call = [op |-> "load_config", force_reload |-> TRUE]
  /\ reads # {}
  /\ prev_cache # PyNone
  /\ "api_key" \in DOMAIN Openrouter(prev_cache)
  /\ Openrouter(prev_cache)["api_key"] = PyStr("sk-stolen")
  /\ environ.OPENROUTER_API_KEY = PyNone
  /\ earlier # PyNone
  /\ earlier.env = environ
  /\ earlier.tree # prev_cache
  /\ _config_cache = earlier.tree
  /\ "api_key" \notin DOMAIN Openrouter(_config_cache)

---------------------------------------------------------------------------
(* Callers of load_config stepping through its lines while other callers   *)
(* call clear_config_cache.                                                *)

\* clear_config_cache, line 114, by a caller that is not inside
\* load_config: one store to the global
Line114(t) ==
  /\ pc[t] = "idle"
  /\ _config_cache # PyNone
  /\ _config_cache' = PyNone
  /\ UNCHANGED <<environ, concVars, seqVars, restVars>>

ClearingNext ==
  \/ ConcNext
  \/ \E t \in Callers : Line114(t)

ClearingSpec == Init /\ [][ClearingNext]_vars

\* C17: whatever load_config returns to a caller is the fully built tree
\* of the environment, never None, under every interleaving of the callers'
\* lines with clear_config_cache calls of other callers.
ResolveNeverReturnsNone ==
  \A t \in Callers :
    result[t] # NotReturned =>
      /\ result[t] # PyNone
      /\ result[t] = FreshTree(environ)

\* a caller passed the test of line 52 and the cache was emptied before
\* its line 53 read it again
ClearedBetweenCheckAndReturn ==
  \E t \in Callers : pc[t] = "line53" /\ _config_cache = PyNone

===========================================================================
